---- MODULE Spec2Model ----
(***************************************************************************)
(* A model of PRobr/run_experiment_probr.py: the fine-tuning driver        *)
(* (main), its training loop (train), the feature cache                    *)
(* (load_and_cache_examples) and the start-up barrier of a distributed run.*)
(*                                                                         *)
(* Four specifications share the module:                                  *)
(*   Spec      one process running main() from argument parsing to return  *)
(*   SpecCache calls of load_and_cache_examples over a file system         *)
(*   SpecDist  the processes of a distributed run around the two           *)
(*             torch.distributed.barrier() calls of main()                 *)
(*   SpecEval  one call of evaluate(), batch by batch, to its output files *)
(***************************************************************************)
EXTENDS Integers, Sequences, FiniteSets, TLC

VARIABLES
    \* ---- main() / train(), one process
    pc,           \* position of the process in main()/train()
    err,          \* the exception main() ended with, "" if none
    args,         \* the parsed command line (args.num_train_epochs is reassigned by train)
    lenLoader,    \* len(train_dataloader): batches per epoch
    outDir,       \* args.output_dir on disk: "absent", "empty" or "nonempty"
    outDir0,      \* args.output_dir on disk when main() started
    outModel,     \* the model saved in args.output_dir itself
    epochDirs,    \* the epoch-N sub-directories written by this run: [epoch, model]
    pgInit,       \* torch.distributed.init_process_group has been called
    modelLoaded,  \* config, tokenizer and model have been loaded (from_pretrained)
    trainCalls,   \* number of calls of train()
    evalCalls,    \* the calls of evaluate(), in order: [split, model]
    results,      \* main's results dictionary: the evaluations merged into it, in order
    epoch_index,  \* train: index of the running epoch (= epochs completed)
    step,         \* train: index of the next batch in the running epoch
    global_step,  \* train: optimizer steps taken
    accum,        \* train: backward passes since the last model.zero_grad()
    applied,      \* train: the backward passes each optimizer.step() applied, in order
    trainResult,  \* the global_step train() returned, -1 before it returns
    \* ---- load_and_cache_examples
    files,        \* the cached feature files that exist: path -> content
    last,         \* the most recent call of load_and_cache_examples
    prev,         \* the call before it
    \* ---- distributed start-up
    dpc,          \* position of each process (by local_rank)
    arrived,      \* the processes that have entered torch.distributed.barrier()
    \* ---- evaluate()
    epc,          \* position in evaluate(), and the exception it ended with
    eargs,        \* args.local_rank and args.eval_batch_size of the call
    dataset,      \* eval_dataset: the examples of the split, in dataset order
    order,        \* the indices the sampler yields, in order
    nb_eval_steps,\* batches evaluated
    preds,        \* the accumulated logits, node logits, edge logits and node labels
    predFiles     \* the three prediction files: the lines of each, in order

mainVars  == <<pc, err, args, lenLoader, outDir, outDir0, outModel, epochDirs, pgInit,
               modelLoaded, trainCalls, evalCalls, results, epoch_index, step,
               global_step, accum, applied, trainResult>>
cacheVars == <<files, last, prev>>
distVars  == <<dpc, arrived>>
evalVars  == <<epc, eargs, dataset, order, nb_eval_steps, preds, predFiles>>
vars      == <<mainVars, cacheVars, distVars, evalVars>>

\* ---- bounds of the model
MaxEpochs   == 10   \* --num_train_epochs ranges over 1..MaxEpochs
MaxMaxSteps == 5    \* --max_steps ranges over {-1} \cup 1..MaxMaxSteps
MaxGas      == 2    \* --gradient_accumulation_steps ranges over 1..MaxGas
MaxLen      == 3    \* len(train_dataloader) ranges over 1..MaxLen
MaxProcs    == 4    \* a distributed run has 2..MaxProcs processes
MaxExamples == 4    \* the evaluation dataset has 0..MaxExamples examples
MaxBatch    == 3    \* args.eval_batch_size ranges over 1..MaxBatch

\* ---- program constants
SaveEvery == 5      \* a checkpoint every 5th epoch

NoModel    == [src |-> "none", step |-> 0]        \* no saved model in a directory
OldModel   == [src |-> "old", step |-> 0]         \* a model saved by an earlier run
Pretrained == [src |-> "pretrained", step |-> 0]  \* from_pretrained(model_name_or_path)
RunModel(n) == [src |-> "run", step |-> n]        \* this run's model after n optimizer steps

NoCall == [path |-> <<>>, branch |-> "none"]

\* The variables a specification does not use stay at these values.
MainIdle ==
    /\ pc = "idle" /\ err = "" /\ args = [none |-> TRUE] /\ lenLoader = 0
    /\ outDir = "absent" /\ outDir0 = "absent" /\ outModel = NoModel
    /\ epochDirs = {} /\ pgInit = FALSE /\ modelLoaded = FALSE
    /\ trainCalls = 0 /\ evalCalls = <<>> /\ results = <<>>
    /\ epoch_index = 0 /\ step = 0 /\ global_step = 0 /\ accum = 0
    /\ applied = <<>> /\ trainResult = -1
CacheIdle == files = <<>> /\ last = NoCall /\ prev = NoCall
DistIdle  == dpc = <<>> /\ arrived = {}
NoPreds   == [logits |-> <<>>, node_logits |-> <<>>, edge_logits |-> <<>>,
              node_label |-> <<>>]
NoFiles   == [predictions |-> <<>>, prediction_nodes |-> <<>>,
              prediction_edge_logits |-> <<>>]
EvalIdle  ==
    /\ epc = "idle" /\ eargs = [none |-> TRUE] /\ dataset = <<>> /\ order = <<>>
    /\ nb_eval_steps = 0 /\ preds = NoPreds /\ predFiles = NoFiles

(***************************************************************************)
(* main(): argument parsing and the output-directory guard                 *)
(***************************************************************************)

\* The flags main() and train() read. local_rank is -1 (not distributed) or 0
\* (the first process of a distributed run).
ArgSpace ==
    [do_train : BOOLEAN, do_eval : BOOLEAN, do_prediction : BOOLEAN,
     run_on_test : BOOLEAN, overwrite_output_dir : BOOLEAN,
     local_rank : {-1, 0},
     max_steps : {-1} \cup (1..MaxMaxSteps),
     num_train_epochs : 1..MaxEpochs,
     gradient_accumulation_steps : 1..MaxGas]

Init ==
    /\ pc = "guard" /\ err = ""
    /\ args \in ArgSpace
    /\ lenLoader \in 1..MaxLen
    /\ outDir \in {"absent", "empty", "nonempty"}
    /\ outDir0 = outDir
    /\ outModel \in (IF outDir = "nonempty" THEN {NoModel, OldModel} ELSE {NoModel})
    /\ epochDirs = {}
    /\ pgInit = FALSE /\ modelLoaded = FALSE
    /\ trainCalls = 0 /\ evalCalls = <<>> /\ results = <<>>
    /\ epoch_index = 0 /\ step = 0 /\ global_step = 0 /\ accum = 0
    /\ applied = <<>> /\ trainResult = -1
    /\ CacheIdle /\ DistIdle /\ EvalIdle

Raise(e) == pc' = "raised" /\ err' = e

\* os.path.exists(output_dir) and os.listdir(output_dir) and do_train
\* and not overwrite_output_dir
OutputDirGuard_NoOverwriteTest(a, d) == d = "nonempty" /\ a.do_train
OutputDirGuard(a, d) == d = "nonempty" /\ a.do_train /\ ~a.overwrite_output_dir

Guard ==
    /\ pc = "guard"
    /\ IF OutputDirGuard(args, outDir)
       THEN Raise("ValueError: output directory")
       ELSE pc' = "setup" /\ err' = err
    /\ UNCHANGED <<args, lenLoader, outDir, outDir0, outModel, epochDirs, pgInit,
                   modelLoaded, trainCalls, evalCalls, results, epoch_index, step,
                   global_step, accum, applied, trainResult>>
    /\ UNCHANGED <<cacheVars, distVars, evalVars>>

\* Setup CUDA, GPU & distributed training (CUDA in use: --no_cuda is not set)
SetupDevice ==
    /\ pc = "setup"
    /\ pgInit' = (args.local_rank # -1)
    /\ pc' = "load"
    /\ UNCHANGED <<err, args, lenLoader, outDir, outDir0, outModel, epochDirs,
                   modelLoaded, trainCalls, evalCalls, results, epoch_index, step,
                   global_step, accum, applied, trainResult>>
    /\ UNCHANGED <<cacheVars, distVars, evalVars>>

\* Load pretrained model and tokenizer. The process is alone or has local_rank 0,
\* so it loads without waiting; the barriers around the loading are those of
\* SpecDist below.
LoadPretrained ==
    /\ pc = "load"
    /\ modelLoaded' = TRUE
    /\ pc' = "dispatch"
    /\ UNCHANGED <<err, args, lenLoader, outDir, outDir0, outModel, epochDirs, pgInit,
                   trainCalls, evalCalls, results, epoch_index, step,
                   global_step, accum, applied, trainResult>>
    /\ UNCHANGED <<cacheVars, distVars, evalVars>>

(***************************************************************************)
(* evaluate(): one call, seen from main(). It creates args.output_dir when *)
(* it is missing and writes eval_results_<split>.txt and the three         *)
(* prediction files into it.                                               *)
(***************************************************************************)
EvalRecord(split, model) == [split |-> split, model |-> model]

Evaluate(split, model) ==
    /\ evalCalls' = Append(evalCalls, EvalRecord(split, model))
    /\ outDir' = "nonempty"

\* if args.do_prediction:
PredictionBranch_UnlessTraining(a) == a.do_prediction /\ ~a.do_train
PredictionBranch(a) == a.do_prediction

\* Prediction (on test set): evaluate the loaded model and return
Predict ==
    /\ pc = "dispatch"
    /\ PredictionBranch(args)
    /\ Evaluate("test", Pretrained)
    /\ results' = <<EvalRecord("test", Pretrained)>>
    /\ pc' = "done"
    /\ UNCHANGED <<err, args, lenLoader, outDir0, outModel, epochDirs, pgInit,
                   modelLoaded, trainCalls, epoch_index, step,
                   global_step, accum, applied, trainResult>>
    /\ UNCHANGED <<cacheVars, distVars, evalVars>>

(***************************************************************************)
(* train()                                                                 *)
(***************************************************************************)

\* len(train_dataloader) // args.gradient_accumulation_steps
StepsPerEpoch(a, len) == len \div a.gradient_accumulation_steps

\* if args.do_train: ... train(args, train_dataset, model, tokenizer), up to the
\* first epoch. With max_steps > 0 the number of epochs is recomputed.
TrainStart ==
    /\ pc = "dispatch"
    /\ ~PredictionBranch(args)
    /\ args.do_train
    /\ trainCalls' = trainCalls + 1
    /\ IF args.max_steps > 0 /\ StepsPerEpoch(args, lenLoader) = 0
       THEN /\ Raise("ZeroDivisionError: num_train_epochs")
            /\ UNCHANGED <<args, epoch_index, step, global_step, accum>>
       ELSE /\ args' = IF args.max_steps > 0
                       THEN [args EXCEPT !.num_train_epochs =
                                args.max_steps \div StepsPerEpoch(args, lenLoader) + 1]
                       ELSE args
            /\ global_step' = 0
            /\ accum' = 0                      \* model.zero_grad()
            /\ epoch_index' = 0 /\ step' = 0
            /\ pc' = "batch" /\ err' = err
    /\ UNCHANGED <<lenLoader, outDir, outDir0, outModel, epochDirs, pgInit,
                   modelLoaded, evalCalls, results, applied, trainResult>>
    /\ UNCHANGED <<cacheVars, distVars, evalVars>>

\* if (step + 1) % args.gradient_accumulation_steps == 0:
StepsNow(a, s) == (s + 1) % a.gradient_accumulation_steps = 0

\* if args.max_steps > 0 and global_step > args.max_steps:
MaxStepsReached(a, g) == a.max_steps > 0 /\ g > a.max_steps

\* One iteration of the batch loop: forward, backward, and every
\* gradient_accumulation_steps-th batch of the epoch an optimizer step.
TrainBatch ==
    /\ pc = "batch"
    /\ LET stepping == StepsNow(args, step)
           g        == IF stepping THEN global_step + 1 ELSE global_step
       IN /\ global_step' = g
          /\ accum' = IF stepping THEN 0 ELSE accum + 1
          /\ applied' = IF stepping THEN Append(applied, accum + 1) ELSE applied
          /\ IF MaxStepsReached(args, g) \/ step + 1 = lenLoader
             THEN pc' = "epoch_end" /\ step' = step
             ELSE pc' = "batch" /\ step' = step + 1
    /\ UNCHANGED <<err, args, lenLoader, outDir, outDir0, outModel, epochDirs, pgInit,
                   modelLoaded, trainCalls, evalCalls, results, epoch_index, trainResult>>
    /\ UNCHANGED <<cacheVars, distVars, evalVars>>

\* if (epoch_index + 1) % 5 == 0:
SavesAfter_ZeroBased(e) == e % SaveEvery = 0
SavesAfter(e) == (e + 1) % SaveEvery = 0

\* After the batch loop of an epoch: leave on max_steps, else checkpoint every
\* fifth epoch into output_dir/epoch-N and output_dir, then the next epoch.
EpochEnd ==
    /\ pc = "epoch_end"
    /\ IF MaxStepsReached(args, global_step)
       THEN /\ pc' = "train_return"
            /\ UNCHANGED <<epoch_index, step, epochDirs, outModel, outDir>>
       ELSE /\ IF SavesAfter(epoch_index)
               THEN /\ epochDirs' = epochDirs \cup
                          {[epoch |-> epoch_index + 1, model |-> RunModel(global_step)]}
                    /\ outModel' = RunModel(global_step)
                    /\ outDir' = "nonempty"
               ELSE UNCHANGED <<epochDirs, outModel, outDir>>
            /\ epoch_index' = epoch_index + 1
            /\ step' = 0
            /\ pc' = IF epoch_index + 1 < args.num_train_epochs
                     THEN "batch" ELSE "train_return"
    /\ UNCHANGED <<err, args, lenLoader, outDir0, pgInit, modelLoaded, trainCalls,
                   evalCalls, results, global_step, accum, applied, trainResult>>
    /\ UNCHANGED <<cacheVars, distVars, evalVars>>

\* return global_step, tr_loss / global_step
TrainReturn ==
    /\ pc = "train_return"
    /\ IF global_step = 0
       THEN Raise("ZeroDivisionError: global_step") /\ UNCHANGED trainResult
       ELSE trainResult' = global_step /\ pc' = "eval" /\ err' = err
    /\ UNCHANGED <<args, lenLoader, outDir, outDir0, outModel, epochDirs, pgInit,
                   modelLoaded, trainCalls, evalCalls, results, epoch_index, step,
                   global_step, accum, applied>>
    /\ UNCHANGED <<cacheVars, distVars, evalVars>>

\* neither --do_prediction nor --do_train
SkipTrain ==
    /\ pc = "dispatch"
    /\ ~PredictionBranch(args)
    /\ ~args.do_train
    /\ pc' = "eval"
    /\ UNCHANGED <<err, args, lenLoader, outDir, outDir0, outModel, epochDirs, pgInit,
                   modelLoaded, trainCalls, evalCalls, results, epoch_index, step,
                   global_step, accum, applied, trainResult>>
    /\ UNCHANGED <<cacheVars, distVars, evalVars>>

(***************************************************************************)
(* main(): evaluation on dev and the run on the test set, both of the      *)
(* model found in args.output_dir (checkpoints = [args.output_dir])        *)
(***************************************************************************)

\* model_class.from_pretrained(checkpoint) needs a saved model in the directory
EvalDev ==
    /\ pc = "eval"
    /\ IF args.do_eval /\ args.local_rank \in {-1, 0}
       THEN IF outModel = NoModel
            THEN /\ Raise("OSError: no model in output_dir")
                 /\ UNCHANGED <<evalCalls, outDir, results>>
            ELSE /\ Evaluate("dev", outModel)
                 /\ results' = Append(results, EvalRecord("dev", outModel))
                 /\ pc' = "test" /\ err' = err
       ELSE /\ pc' = "test" /\ err' = err
            /\ UNCHANGED <<evalCalls, outDir, results>>
    /\ UNCHANGED <<args, lenLoader, outDir0, outModel, epochDirs, pgInit,
                   modelLoaded, trainCalls, epoch_index, step,
                   global_step, accum, applied, trainResult>>
    /\ UNCHANGED <<cacheVars, distVars, evalVars>>

RunOnTest ==
    /\ pc = "test"
    /\ IF args.run_on_test /\ args.local_rank \in {-1, 0}
       THEN IF outModel = NoModel
            THEN /\ Raise("OSError: no model in output_dir")
                 /\ UNCHANGED <<evalCalls, outDir, results>>
            ELSE /\ Evaluate("test", outModel)
                 /\ results' = Append(results, EvalRecord("test", outModel))
                 /\ pc' = "done" /\ err' = err
       ELSE /\ pc' = "done" /\ err' = err
            /\ UNCHANGED <<evalCalls, outDir, results>>
    /\ UNCHANGED <<args, lenLoader, outDir0, outModel, epochDirs, pgInit,
                   modelLoaded, trainCalls, epoch_index, step,
                   global_step, accum, applied, trainResult>>
    /\ UNCHANGED <<cacheVars, distVars, evalVars>>

Next ==
    \/ Guard
    \/ SetupDevice
    \/ LoadPretrained
    \/ Predict
    \/ TrainStart
    \/ TrainBatch
    \/ EpochEnd
    \/ TrainReturn
    \/ SkipTrain
    \/ EvalDev
    \/ RunOnTest

Spec == Init /\ [][Next]_vars

(***************************************************************************)
(* Properties of main() and train(), checked under Spec                    *)
(***************************************************************************)
EvalSplits == [i \in DOMAIN evalCalls |-> evalCalls[i].split]
Ended == pc \in {"done", "raised"}

\* C1, as stated: whenever --do_prediction is set, main ends having never called
\* train, having called evaluate exactly once, on the test split, and having
\* returned that evaluation's results.
C1_PredictionAlwaysEvaluates ==
    (Ended /\ args.do_prediction) =>
        /\ trainCalls = 0
        /\ EvalSplits = <<"test">>
        /\ pc = "done" /\ results = evalCalls

\* C1, amended: with --do_prediction set main never calls train and never
\* evaluates the dev split or a second time; and when main returns, it has called
\* evaluate exactly once, on the test split, and returns that evaluation's results.
C1_PredictionOnly ==
    args.do_prediction =>
        /\ trainCalls = 0 /\ trainResult = -1 /\ global_step = 0
        /\ Len(evalCalls) <= 1
        /\ \A i \in DOMAIN evalCalls : evalCalls[i].split = "test"
        /\ pc = "done" => (EvalSplits = <<"test">> /\ results = evalCalls)

C1_Witness ==
    /\ pc = "done" /\ args.do_prediction /\ args.do_train
    /\ args.do_eval /\ args.run_on_test
    /\ EvalSplits = <<"test">>

\* C2: when max_steps > 0, the global_step train returns equals max_steps.
C2_ReturnsMaxSteps ==
    (trainResult # -1 /\ args.max_steps > 0) => trainResult = args.max_steps

\* C3: every optimizer step applies the gradients of exactly
\* gradient_accumulation_steps backward passes since the last model.zero_grad().
C3_ExactAccumulation ==
    \A i \in DOMAIN applied : applied[i] = args.gradient_accumulation_steps

\* C4: main raises ValueError at the output-directory guard exactly when
\* output_dir exists and is non-empty, --do_train is set and
\* --overwrite_output_dir is not; and when it does, nothing else has happened: no
\* process group, no model loaded, no training step, no evaluation, and the
\* output directory is as it was.
GuardRaised == pc = "raised" /\ err = "ValueError: output directory"

C4_OutputDirGuard ==
    /\ pc # "guard" =>
          (GuardRaised <=>
              (outDir0 = "nonempty" /\ args.do_train /\ ~args.overwrite_output_dir))
    /\ GuardRaised =>
          /\ ~pgInit /\ ~modelLoaded
          /\ trainCalls = 0 /\ global_step = 0 /\ applied = <<>> /\ accum = 0
          /\ evalCalls = <<>> /\ results = <<>>
          /\ outDir = outDir0 /\ epochDirs = {} /\ outModel.src # "run"

C4_Witness == GuardRaised /\ args.do_prediction /\ args.local_rank = 0

\* C9: the epoch-N checkpoints train has written are exactly those of the epochs
\* N completed without the max_steps break, N a positive multiple of 5; each
\* was written once; and the model in output_dir is the one of the latest
\* epoch-N checkpoint (this run has written none into output_dir before the
\* first).
WrittenEpochs == {c.epoch : c \in epochDirs}
LatestCheckpoint == CHOOSE c \in epochDirs : \A d \in epochDirs : d.epoch <= c.epoch

C10_ModelSavedByRun ==
    trainResult # -1 => outModel.src = "run"

(***************************************************************************)
(* load_and_cache_examples(). Strings are sequences of characters; a path  *)
(* is the sequence of its characters, with a directory name, a split name  *)
(* and a task name each standing as one element.                           *)
(***************************************************************************)

\* s.split('/'): the pieces between the slashes, empty ones included
RECURSIVE SplitSlash(_)
SplitSlash(s) ==
    IF s = <<>> THEN << <<>> >>
    ELSE LET r == SplitSlash(Tail(s))
         IN  IF Head(s) = "/"
             THEN << <<>> >> \o r
             ELSE << <<Head(s)>> \o Head(r) >> \o Tail(r)

\* list(filter(None, pieces))
FilterNone(pieces) == SelectSeq(pieces, LAMBDA x : x # <<>>)

\* str(n) of a natural number
Digit(d) == <<"0", "1", "2", "3", "4", "5", "6", "7", "8", "9">>[d + 1]
RECURSIVE Str(_)
Str(n) == IF n < 10 THEN <<Digit(n)>> ELSE Str(n \div 10) \o <<Digit(n % 10)>>

\* os.path.join(dir, name), name not absolute
PathJoin(dir, name) == <<dir, "/">> \o name

\* data_cache_dir if given, else data_dir
CacheDir(a) == IF a.data_cache_dir = "None" THEN a.data_dir ELSE a.data_cache_dir

\* list(filter(None, args.model_name_or_path.split('/')))
NameParts(a) == FilterNone(SplitSlash(a.model_name_or_path))

\* 'cached_{}_{}_{}_{}'.format(eval_split, <last part>, str(max_seq_length), str(task))
CachedFeaturesFile_WithNodeLength(a) ==
    PathJoin(CacheDir(a),
             <<"cached_", a.eval_split, "_">> \o NameParts(a)[Len(NameParts(a))]
                \o <<"_">> \o Str(a.max_seq_length) \o <<"_">> \o Str(a.max_node_length)
                \o <<"_", a.task>>)
CachedFeaturesFile(a) ==
    PathJoin(CacheDir(a),
             <<"cached_", a.eval_split, "_">> \o NameParts(a)[Len(NameParts(a))]
                \o <<"_">> \o Str(a.max_seq_length) \o <<"_", a.task>>)

\* convert_examples_to_features_RR(examples of the split, ...): what it is given
BuiltFeatures(a) ==
    [src |-> "dataset", data_dir |-> a.data_dir, split |-> a.eval_split,
     max_seq_length |-> a.max_seq_length, max_node_length |-> a.max_node_length,
     filter_mask |-> a.filter_mask]

\* torch.load(path)
Exists(fs, p) == \E f \in fs : f.path = p
FileContent(fs, p) == (CHOOSE f \in fs : f.path = p).content

\* if os.path.exists(cached_features_file):
TakesCachedBranch(a, fs) == Exists(fs, CachedFeaturesFile(a))

\* The arguments of a call. max_edge_length, model_type and the tokenizer are
\* the same in every call; model_name_or_path has a non-empty component (without
\* one, pop() raises IndexError before any file is consulted).
CallSpace ==
    [data_dir : {"data"}, data_cache_dir : {"None", "cache"},
     eval_split : {"train", "dev"},
     model_name_or_path : { <<"m">>, <<"n", "/", "m", "/">>, <<"m", "/", "n">> },
     max_seq_length : {300}, task : {"rr"},
     max_node_length : {10, 26}, filter_mask : BOOLEAN, overwrite_cache : BOOLEAN]

SavedFeatures(p) == [src |-> "file", path |-> p]

\* The cache files an earlier program may have left behind
CandidateFiles ==
    { [path |-> CachedFeaturesFile(a), content |-> SavedFeatures(CachedFeaturesFile(a))] :
        a \in { c \in CallSpace : /\ c.model_name_or_path = <<"m">>
                                  /\ c.max_node_length = 26
                                  /\ ~c.filter_mask /\ ~c.overwrite_cache
                                  /\ c.data_cache_dir = "None" } }

InitCache ==
    /\ files \in SUBSET CandidateFiles
    /\ last = NoCall /\ prev = NoCall
    /\ MainIdle /\ DistIdle /\ EvalIdle

\* One call of load_and_cache_examples, from its arguments to its return
LoadAndCacheExamples(a) ==
    /\ prev' = last
    /\ LET p == CachedFeaturesFile(a)
       IN  IF TakesCachedBranch(a, files)
           THEN last' = [a |-> a, path |-> p, branch |-> "cached",
                         features |-> FileContent(files, p)]
           ELSE last' = [a |-> a, path |-> p, branch |-> "built",
                         features |-> BuiltFeatures(a)]
    /\ UNCHANGED files
    /\ UNCHANGED <<mainVars, distVars, evalVars>>

NextCache == \E a \in CallSpace : LoadAndCacheExamples(a)

SpecCache == InitCache /\ [][NextCache]_vars

\* The arguments the cache file is keyed by
CacheKey(a) ==
    <<CacheDir(a), a.eval_split, NameParts(a)[Len(NameParts(a))],
      a.max_seq_length, a.task>>
Returned(c) == c.branch \in {"cached", "built"}

\* C5: two calls that agree on the cache directory, the split, the last non-empty
\* component of model_name_or_path, max_seq_length and the task consult the same
\* file, and when they load it they load the same features, whatever their other
\* arguments are.
C5_CacheKey ==
    (Returned(prev) /\ Returned(last) /\ CacheKey(prev.a) = CacheKey(last.a)) =>
        /\ prev.path = last.path
        /\ prev.branch = last.branch
        /\ prev.branch = "cached" => prev.features = last.features

C5_Witness ==
    /\ Returned(prev) /\ Returned(last)
    /\ CacheKey(prev.a) = CacheKey(last.a)
    /\ prev.a.model_name_or_path # last.a.model_name_or_path
    /\ prev.a.max_node_length # last.a.max_node_length
    /\ prev.a.filter_mask # last.a.filter_mask
    /\ prev.branch = "cached" /\ last.branch = "cached"
    /\ prev.features = last.features

\* C6: after a call that missed the cache returns, the cache file exists.
C6_MissWritesCache ==
    last.branch = "built" => Exists(files, last.path)

\* C7: a call with --overwrite_cache set does not load features from an existing
\* cached file.
C7_OverwriteCacheRebuilds ==
    (Returned(last) /\ last.a.overwrite_cache) => last.branch = "built"

(***************************************************************************)
(* The start of a distributed run (local_rank # -1) on one node: every     *)
(* process runs "Load pretrained model and tokenizer" of main(), the       *)
(* processes are the local ranks 0..n-1, and torch.distributed.barrier()   *)
(* returns in a process once every process of the group has entered it.    *)
(* Each process is at                                                      *)
(*   "start"           before the first test of local_rank                 *)
(*   "barrier_before"  in the barrier entered before loading               *)
(*   "load_config"     about to load the config, nothing loaded yet        *)
(*   "load_tokenizer"  config loaded                                       *)
(*   "load_model"      config and tokenizer loaded                         *)
(*   "loaded"          config, tokenizer and model loaded                  *)
(*   "barrier_after"   in the barrier entered after loading                *)
(*   "done"            at model.to(args.device)                            *)
(***************************************************************************)
Ranks == DOMAIN dpc

InitDist ==
    /\ \E n \in 2..MaxProcs : dpc = [r \in 0..(n - 1) |-> "start"]
    /\ arrived = {}
    /\ MainIdle /\ CacheIdle /\ EvalIdle

\* if args.local_rank not in [-1, 0]:
WaitsBeforeLoading_FirstOnly(r) == r = 0
WaitsBeforeLoading(r) == r \notin {-1, 0}

\* if args.local_rank == 0:
WaitsAfterLoading(r) == r = 0

At(r, p, q) == dpc[r] = p /\ dpc' = [dpc EXCEPT ![r] = q]

EnterBarrierBefore(r) ==
    /\ WaitsBeforeLoading(r)
    /\ At(r, "start", "barrier_before")
    /\ arrived' = arrived \cup {r}
    /\ UNCHANGED <<mainVars, cacheVars, evalVars>>

SkipBarrierBefore(r) ==
    /\ ~WaitsBeforeLoading(r)
    /\ At(r, "start", "load_config")
    /\ UNCHANGED arrived
    /\ UNCHANGED <<mainVars, cacheVars, evalVars>>

\* torch.distributed.barrier() returns
LeaveBarrier(r) ==
    /\ arrived = Ranks
    /\ \/ At(r, "barrier_before", "load_config")
       \/ At(r, "barrier_after", "done")
    /\ UNCHANGED arrived
    /\ UNCHANGED <<mainVars, cacheVars, evalVars>>

\* config_class.from_pretrained(...)
LoadConfig(r) ==
    /\ At(r, "load_config", "load_tokenizer")
    /\ UNCHANGED arrived
    /\ UNCHANGED <<mainVars, cacheVars, evalVars>>

\* tokenizer_class.from_pretrained(...)
LoadTokenizer(r) ==
    /\ At(r, "load_tokenizer", "load_model")
    /\ UNCHANGED arrived
    /\ UNCHANGED <<mainVars, cacheVars, evalVars>>

\* model_class.from_pretrained(...)
LoadModel(r) ==
    /\ At(r, "load_model", "loaded")
    /\ UNCHANGED arrived
    /\ UNCHANGED <<mainVars, cacheVars, evalVars>>

EnterBarrierAfter(r) ==
    /\ WaitsAfterLoading(r)
    /\ At(r, "loaded", "barrier_after")
    /\ arrived' = arrived \cup {r}
    /\ UNCHANGED <<mainVars, cacheVars, evalVars>>

SkipBarrierAfter(r) ==
    /\ ~WaitsAfterLoading(r)
    /\ At(r, "loaded", "done")
    /\ UNCHANGED arrived
    /\ UNCHANGED <<mainVars, cacheVars, evalVars>>

NextDist ==
    \/ \E r \in Ranks : EnterBarrierBefore(r)
    \/ \E r \in Ranks : SkipBarrierBefore(r)
    \/ \E r \in Ranks : LeaveBarrier(r)
    \/ \E r \in Ranks : LoadConfig(r)
    \/ \E r \in Ranks : LoadTokenizer(r)
    \/ \E r \in Ranks : LoadModel(r)
    \/ \E r \in Ranks : EnterBarrierAfter(r)
    \/ \E r \in Ranks : SkipBarrierAfter(r)

SpecDist == InitDist /\ [][NextDist]_vars

StartedLoading(r)  == dpc[r] \in {"load_tokenizer", "load_model", "loaded",
                                  "barrier_after", "done"}
FinishedLoading(r) == dpc[r] \in {"loaded", "barrier_after", "done"}

\* C8: in a distributed run no process with local_rank # 0 has started loading
\* config, tokenizer or model unless the process with local_rank 0 has finished
\* loading them.
C8_FirstProcessLoadsFirst ==
    \A r \in Ranks \ {0} : StartedLoading(r) => FinishedLoading(0)

C8_Witness ==
    /\ Cardinality(Ranks) > 2
    /\ dpc[0] = "barrier_after"
    /\ \E r, q \in Ranks \ {0} : dpc[r] = "load_model" /\ dpc[q] = "barrier_before"

(***************************************************************************)
(* evaluate(): one call from the data loader to the three prediction       *)
(* files. An example is its index in the dataset and the number of its     *)
(* node labels other than -100; a row of model output carries the example  *)
(* it was computed from, and argmax and softmax work row by row.           *)
(***************************************************************************)
Datasets ==
    UNION { { [i \in 1..n |-> [id |-> i, nodes |-> f[i]]] : f \in [1..n -> {1, 2}] } :
            n \in 0..MaxExamples }

InitEval ==
    /\ epc = "start"
    /\ eargs \in [local_rank : {-1, 0}, eval_batch_size : 1..MaxBatch]
    /\ dataset \in Datasets
    /\ order = <<>>
    /\ nb_eval_steps = 0 /\ preds = NoPreds /\ predFiles = NoFiles
    /\ MainIdle /\ CacheIdle /\ DistIdle

\* SequentialSampler(eval_dataset) if args.local_rank == -1
\* else DistributedSampler(eval_dataset), which samples randomly (here the only
\* process of its group, so it yields every index once)
SamplerOrders(n, local_rank) ==
    IF local_rank = -1
    THEN { [i \in 1..n |-> i] }
    ELSE { f \in [1..n -> 1..n] : \A i, j \in 1..n : f[i] = f[j] => i = j }

\* len(eval_dataloader): DataLoader(..., batch_size=args.eval_batch_size) keeps
\* the last, partial batch
NumBatches_DropLast(n, b) == n \div b
NumBatches(n, b) == (n + b - 1) \div b

\* the indices of batch k (k = 0, 1, ...)
BatchIndices(ord, k, b) ==
    SubSeq(ord, k * b + 1, IF (k + 1) * b < Len(ord) THEN (k + 1) * b ELSE Len(ord))

\* outputs = model(**inputs): one row of each kind per example of the batch
Rows(batch, kind) == [i \in DOMAIN batch |-> [ex |-> dataset[batch[i]].id, of |-> kind]]
\* inputs['node_label']
NodeLabels(batch) == [i \in DOMAIN batch |-> dataset[batch[i]]]

\* eval_sampler, eval_dataloader and the empty accumulators
EvalStart ==
    /\ epc = "start"
    /\ order' \in SamplerOrders(Len(dataset), eargs.local_rank)
    /\ nb_eval_steps' = 0
    /\ preds' = NoPreds
    /\ epc' = "batches"
    /\ UNCHANGED <<eargs, dataset, predFiles>>
    /\ UNCHANGED <<mainVars, cacheVars, distVars>>

\* for batch in tqdm(eval_dataloader): the first batch sets the accumulators,
\* every later one is appended along axis 0
EvalBatch ==
    /\ epc = "batches"
    /\ nb_eval_steps < NumBatches(Len(order), eargs.eval_batch_size)
    /\ LET batch == BatchIndices(order, nb_eval_steps, eargs.eval_batch_size)
       IN  preds' = [logits      |-> preds.logits \o Rows(batch, "logits"),
                     node_logits |-> preds.node_logits \o Rows(batch, "node_logits"),
                     edge_logits |-> preds.edge_logits \o Rows(batch, "edge_logits"),
                     node_label  |-> preds.node_label \o NodeLabels(batch)]
    /\ nb_eval_steps' = nb_eval_steps + 1
    /\ UNCHANGED <<epc, eargs, dataset, order, predFiles>>
    /\ UNCHANGED <<mainVars, cacheVars, distVars>>

\* for node_gold, node_pred in zip(out_node_label_ids, node_preds)
ZipLen(a, b) == IF Len(a) < Len(b) THEN Len(a) ELSE Len(b)

\* After the loop: eval_loss / nb_eval_steps, argmax and softmax by row, then one
\* line per row into predictions_, prediction_nodes_ and prediction_edge_logits_
EvalFinish ==
    /\ epc = "batches"
    /\ nb_eval_steps = NumBatches(Len(order), eargs.eval_batch_size)
    /\ IF nb_eval_steps = 0
       THEN epc' = "ZeroDivisionError" /\ UNCHANGED predFiles
       ELSE /\ predFiles' =
                 [predictions |->
                      [i \in DOMAIN preds.logits |-> [ex |-> preds.logits[i].ex]],
                  prediction_nodes |->
                      [i \in 1..ZipLen(preds.node_label, preds.node_logits) |->
                          [ex |-> preds.node_logits[i].ex,
                           len |-> preds.node_label[i].nodes]],
                  prediction_edge_logits |->
                      [i \in DOMAIN preds.edge_logits |-> [ex |-> preds.edge_logits[i].ex]]]
            /\ epc' = "done"
    /\ UNCHANGED <<eargs, dataset, order, nb_eval_steps, preds>>
    /\ UNCHANGED <<mainVars, cacheVars, distVars>>

NextEval ==
    \/ EvalStart
    \/ EvalBatch
    \/ EvalFinish

SpecEval == InitEval /\ [][NextEval]_vars

\* line i of the file belongs to example i of the dataset, for every example
OneLinePerExample(lines) ==
    /\ Len(lines) = Len(dataset)
    /\ \A i \in 1..Len(dataset) : lines[i].ex = dataset[i].id

\* C11: a non-distributed evaluate call (local_rank = -1) on a non-empty split
\* ends with exactly one line per example in each of the three prediction
\* files, line i belonging to example i in dataset order (and the node line
\* cut to that example's own number of nodes).
C11_OneLinePerExample ==
    (epc # "start" /\ eargs.local_rank = -1 /\ Len(dataset) > 0) =>
        /\ epc \in {"batches", "done"}
        /\ epc = "done" =>
              /\ OneLinePerExample(predFiles.predictions)
              /\ OneLinePerExample(predFiles.prediction_nodes)
              /\ OneLinePerExample(predFiles.prediction_edge_logits)
              /\ \A i \in 1..Len(dataset) :
                    predFiles.prediction_nodes[i].len = dataset[i].nodes

C11_Witness ==
    /\ epc = "done" /\ eargs.local_rank = -1
    /\ eargs.eval_batch_size > 1
    /\ Len(dataset) > eargs.eval_batch_size
    /\ Len(dataset) % eargs.eval_batch_size # 0
    /\ dataset[1].nodes # dataset[Len(dataset)].nodes
    /\ Len(predFiles.predictions) = Len(dataset)

====
